---- MODULE Spec2Model ----
(***************************************************************************)
(* Four-stage multi-agent debate (opening -> questioning -> free_debate    *)
(* -> closing): the LangGraph state machine of src/graph.py as driven by   *)
(* src/debates.py.  One step of the model is one superstep of the graph:   *)
(* the execution of one node (an agent node or a stage-transition node)    *)
(* and the application of the Command it returns.                          *)
(***************************************************************************)
EXTENDS Integers, Sequences, FiniteSets, TLC

(***************************************************************************)
(* Program constants and model bounds.                                     *)
(***************************************************************************)
\* create_multi_agent_graph: fewer than 3 agents is rejected.
MinAgents == 3

\* create_multi_agent_graph: more than 6 agents is rejected.
MaxAgents == 6

\* The model explores MinAgents .. MinAgents + ExtraAgents participants.
ExtraAgents == 0

\* max_rounds is 1 (the least round limit) or MaxRounds.
MaxRounds == 2

\* With two debates in the process the scheduler switches from one to the
\* other at most MaxSwitch times, and only away from a debate that has made
\* at most MaxLead turns.
MaxSwitch == 1

MaxLead == 1

\* At most MaxFail inference calls fail while the inference service is
\* "flaky".
MaxFail == 1

\* At most MaxExtra turns of the questioning stage are neither a recorded
\* question nor a recorded answer (they make the transcript grow without
\* advancing the stage, so they are capped to keep the model finite).
MaxExtra == 1

\* With the inference service down the questioning stage is followed for
\* 2N + MaxStall turns.
MaxStall == 1

\* Keys of AVAILABLE_ROLES, in the order used to build active_agents.
AgentPool == <<"tech_expert", "sociologist", "ethicist", "economist",
               "policy_maker", "environmentalist">>

AVAILABLE_ROLES == {AgentPool[i] : i \in 1..Len(AgentPool)}

END == "__end__"

START == "__start__"

\* generate_response returned before the graph was run.
RETURNED == "returned"

StageNodes == {"questioning", "free_debate", "closing"}

VARIABLES
  state,       \* the MultiAgentDebateState channels
  node,        \* the graph node that runs next (an agent, a stage node, END)
  deepseek,    \* module global: "client", or "None" when initialisation failed
  rag_module,  \* module global: "module", or "None"
  inference,   \* the inference service: "ok" (every call returns text),
               \* "flaky" (a call may raise) or "down" (every call raises)
  retrieved,   \* per participant, the calls made so far to the retrieval
               \* collaborator (rag_module.get_rag_context_for_agent)
  suspended    \* the other debate of the process, if there is one, while the
               \* debate in state/node/retrieved runs: [id, state, node,
               \* retrieved, switches]; NoInstance when there is none

vars == <<state, node, deepseek, rag_module, inference, retrieved, suspended>>

(***************************************************************************)
(* Helpers for Python lists and dicts.                                     *)
(***************************************************************************)
Range(seq) == {seq[i] : i \in 1..Len(seq)}

EmptyDict == [k \in {} |-> ""]

DictSet(d, key, value) ==
  [k \in (DOMAIN d) \cup {key} |-> IF k = key THEN value ELSE d[k]]

SetMin(S) == CHOOSE m \in S : \A x \in S : m <= x

\* One transcript entry.  An AIMessage holds only its content; the speaker,
\* the stage and the kind of content are what the content says.
Msg(speaker, stage, kind) == [speaker |-> speaker, stage |-> stage, kind |-> kind]

\* {**state, **update}: a plain dict merge, update wins.
Merge(s, update) ==
  [k \in DOMAIN s |-> IF k \in DOMAIN update THEN update[k] ELSE s[k]]

\* Deliberately wrong variant: new messages are put in front.
Apply_prepends(s, update) ==
  [k \in DOMAIN s |->
     IF k \in DOMAIN update
     THEN IF k = "messages" THEN update[k] \o s[k] ELSE update[k]
     ELSE s[k]]

\* The graph applies a Command's update channel by channel: messages is
\* appended to (MessagesState), every other channel is overwritten.
Apply(s, update) ==
  [k \in DOMAIN s |->
     IF k \in DOMAIN update
     THEN IF k = "messages" THEN s[k] \o update[k] ELSE update[k]
     ELSE s[k]]

(***************************************************************************)
(* Counting over the transcript (observations, not program state).         *)
(***************************************************************************)
Turns(s, stage) ==
  Cardinality({i \in 1..Len(s.messages) :
                 /\ s.messages[i].stage = stage
                 /\ s.messages[i].speaker # "system"})

KindCount(s, kinds) ==
  Cardinality({i \in 1..Len(s.messages) : s.messages[i].kind \in kinds})

Fails(s) == KindCount(s, {"apology"})

Slips(s) ==
  Cardinality({i \in 1..Len(s.messages) :
                 /\ s.messages[i].stage = "questioning"
                 /\ s.messages[i].kind \in {"not_my_turn", "no_question"}})

Extra(s) ==
  Cardinality({i \in 1..Len(s.messages) :
                 /\ s.messages[i].stage = "questioning"
                 /\ s.messages[i].kind \in {"apology", "not_my_turn", "no_question"}})

(***************************************************************************)
(* select_next_questioner_and_target: every pair random.choice can return. *)
(***************************************************************************)
question_count(active_agents, questions_asked, agent) ==
  Cardinality({i \in 1..Len(questions_asked) : questions_asked[i].questioner = agent})

target_count(active_agents, questions_asked, agent) ==
  Cardinality({i \in 1..Len(questions_asked) : questions_asked[i].target = agent})

\* Deliberately wrong variant: the questioner is drawn among all
\* participants, whatever they have asked.
candidates_questioner_any(active_agents, questions_asked) ==
  Range(active_agents)

\* Deliberately wrong variant: the first registered participant always asks.
candidates_questioner_first(active_agents, questions_asked) ==
  {active_agents[1]}

candidates_questioner(active_agents, questions_asked) ==
  LET min_questions ==
        SetMin({question_count(active_agents, questions_asked, a) : a \in Range(active_agents)})
  IN {a \in Range(active_agents) :
        question_count(active_agents, questions_asked, a) = min_questions}

\* Deliberately wrong variant: the questioner is not excluded.
candidates_target_any(active_agents, questions_asked, questioner) ==
  LET min_targets ==
        SetMin({target_count(active_agents, questions_asked, a) : a \in Range(active_agents)})
  IN {a \in Range(active_agents) :
        target_count(active_agents, questions_asked, a) = min_targets}

\* Deliberately wrong variant: the target is drawn among all the others,
\* whatever their counts.
candidates_target_unbalanced(active_agents, questions_asked, questioner) ==
  Range(active_agents) \ {questioner}

candidates_target(active_agents, questions_asked, questioner) ==
  LET available_targets == Range(active_agents) \ {questioner}
      min_targets ==
        SetMin({target_count(active_agents, questions_asked, a) : a \in available_targets})
  IN {a \in available_targets :
        target_count(active_agents, questions_asked, a) = min_targets}

select_next_questioner_and_target(active_agents, questions_asked) ==
  UNION {{<<questioner, target>> :
            target \in candidates_target(active_agents, questions_asked, questioner)} :
         questioner \in candidates_questioner(active_agents, questions_asked)}

(***************************************************************************)
(* determine_next_node: the set of nodes it can return for a state, one    *)
(* operator per branch of the stage dispatch.                              *)
(***************************************************************************)
\* Deliberately wrong variant: the opening stage hands over to free_debate.
next_in_opening_skip(s) ==
  IF s.stage_progress < Len(s.active_agents)
  THEN {s.active_agents[s.stage_progress + 1]}
  ELSE {"free_debate"}

next_in_opening(s) ==
  IF s.stage_progress < Len(s.active_agents)
  THEN {s.active_agents[s.stage_progress + 1]}
  ELSE {"questioning"}

\* Deliberately wrong variant: the pending answer is scheduled for the
\* questioner.
next_when_waiting_questioner(s) ==
  IF s.current_questioner # "" /\ s.current_questioner \in Range(s.active_agents)
  THEN {s.current_questioner}
  ELSE {"free_debate"}

\* Deliberately wrong variant: an invalid target ends the debate.
next_when_waiting_stops(s) ==
  IF s.current_target # "" /\ s.current_target \in Range(s.active_agents)
  THEN {s.current_target}
  ELSE {END}

next_when_waiting(s) ==
  IF s.current_target # "" /\ s.current_target \in Range(s.active_agents)
  THEN {s.current_target}
  ELSE {"free_debate"}

\* Deliberately wrong variant: one question more than participants.
next_when_asking_extra(s) ==
  IF Len(s.questions_asked) <= Len(s.active_agents)
  THEN {p[1] : p \in select_next_questioner_and_target(s.active_agents, s.questions_asked)}
  ELSE {"free_debate"}

next_when_asking(s) ==
  IF Len(s.questions_asked) < Len(s.active_agents)
  THEN {p[1] : p \in select_next_questioner_and_target(s.active_agents, s.questions_asked)}
  ELSE {"free_debate"}

next_in_questioning(s) ==
  IF s.waiting_for_answer THEN next_when_waiting(s) ELSE next_when_asking(s)

\* Deliberately wrong variant: the round test is strict.
next_in_free_debate_strict(s) ==
  LET current_round == (s.stage_progress \div Len(s.active_agents)) + 1 IN
  IF current_round < s.max_rounds
  THEN {s.active_agents[(s.stage_progress % Len(s.active_agents)) + 1]}
  ELSE {"closing"}

\* Deliberately wrong variant: the rotation starts one participant late.
next_in_free_debate_offset(s) ==
  LET current_round == (s.stage_progress \div Len(s.active_agents)) + 1 IN
  IF current_round <= s.max_rounds
  THEN {s.active_agents[((s.stage_progress + 1) % Len(s.active_agents)) + 1]}
  ELSE {"closing"}

\* Deliberately wrong variant: the speaker of a free_debate turn is either
\* the participant whose turn it is or the one after.
next_in_free_debate_either(s) ==
  LET current_round == (s.stage_progress \div Len(s.active_agents)) + 1 IN
  IF current_round <= s.max_rounds
  THEN {s.active_agents[(s.stage_progress % Len(s.active_agents)) + 1],
        s.active_agents[((s.stage_progress + 1) % Len(s.active_agents)) + 1]}
  ELSE {"closing"}

next_in_free_debate(s) ==
  LET current_round == (s.stage_progress \div Len(s.active_agents)) + 1 IN
  IF current_round <= s.max_rounds
  THEN {s.active_agents[(s.stage_progress % Len(s.active_agents)) + 1]}
  ELSE {"closing"}

\* Deliberately wrong variant: the closing stage runs in reverse order.
next_in_closing_reversed(s) ==
  IF s.stage_progress < Len(s.active_agents)
  THEN {s.active_agents[Len(s.active_agents) - s.stage_progress]}
  ELSE {END}

next_in_closing(s) ==
  IF s.stage_progress < Len(s.active_agents)
  THEN {s.active_agents[s.stage_progress + 1]}
  ELSE {END}

determine_next_node(s) ==
  IF s.current_stage = "opening" THEN next_in_opening(s)
  ELSE IF s.current_stage = "questioning" THEN next_in_questioning(s)
  ELSE IF s.current_stage = "free_debate" THEN next_in_free_debate(s)
  ELSE IF s.current_stage = "closing" THEN next_in_closing(s)
  ELSE {END}

(***************************************************************************)
(* get_rag_context_for_agent.  The result is the set of outcomes of the    *)
(* call: the context handed to the prompt and the state as the call leaves *)
(* it (the cache dict and the completed list are updated in place).        *)
(***************************************************************************)
RetrievalOutcomes == {"found", "nothing", "raise"}

\* The text handed to the prompt: retrieved material (which differs from one
\* participant to another) or one of the fixed placeholder texts.
Context(kind, agent_key) == [kind |-> kind, of |-> agent_key]

Placeholder(kind) == Context(kind, "")

\* Whether the call reaches the retrieval collaborator.
invokes_retrieval(agent_key, s) ==
  /\ s.rag_enabled
  /\ rag_module # "None"
  /\ s.current_stage = "opening"
  /\ agent_key \notin Range(s.first_round_rag_completed)

\* Deliberately wrong variant: the retrieval switch is not consulted.
get_rag_context_for_agent_ignores_switch(agent_key, s) ==
  IF rag_module = "None" THEN
    {[context |-> Placeholder("rag_disabled"), st |-> s]}
  ELSE IF s.current_stage = "opening"
          /\ agent_key \notin Range(s.first_round_rag_completed) THEN
    {IF outcome = "found" THEN
       [context |-> Context("material", agent_key),
        st |-> [s EXCEPT
                  !.agent_paper_cache =
                    DictSet(@, agent_key, Context("material", agent_key)),
                  !.first_round_rag_completed = Append(@, agent_key)]]
     ELSE IF outcome = "nothing" THEN [context |-> Placeholder("not_found"), st |-> s]
     ELSE [context |-> Placeholder("rag_error"), st |-> s]
     : outcome \in RetrievalOutcomes}
  ELSE IF agent_key \in DOMAIN s.agent_paper_cache THEN
    {[context |-> s.agent_paper_cache[agent_key], st |-> s]}
  ELSE
    {[context |-> Placeholder("not_found"), st |-> s]}

\* Deliberately wrong variant: the cache is filled but never read.
get_rag_context_for_agent_ignores_cache(agent_key, s) ==
  IF ~s.rag_enabled \/ rag_module = "None" THEN
    {[context |-> Placeholder("rag_disabled"), st |-> s]}
  ELSE IF invokes_retrieval(agent_key, s) THEN
    {IF outcome = "found" THEN
       [context |-> Context("material", agent_key),
        st |-> [s EXCEPT
                  !.agent_paper_cache =
                    DictSet(@, agent_key, Context("material", agent_key)),
                  !.first_round_rag_completed = Append(@, agent_key)]]
     ELSE IF outcome = "nothing" THEN [context |-> Placeholder("not_found"), st |-> s]
     ELSE [context |-> Placeholder("rag_error"), st |-> s]
     : outcome \in RetrievalOutcomes}
  ELSE
    {[context |-> Placeholder("not_found"), st |-> s]}

get_rag_context_for_agent(agent_key, s) ==
  IF ~s.rag_enabled \/ rag_module = "None" THEN
    {[context |-> Placeholder("rag_disabled"), st |-> s]}
  ELSE IF invokes_retrieval(agent_key, s) THEN
    {IF outcome = "found" THEN
       [context |-> Context("material", agent_key),
        st |-> [s EXCEPT
                  !.agent_paper_cache =
                    DictSet(@, agent_key, Context("material", agent_key)),
                  !.first_round_rag_completed = Append(@, agent_key)]]
     ELSE IF outcome = "nothing" THEN [context |-> Placeholder("not_found"), st |-> s]
     ELSE [context |-> Placeholder("rag_error"), st |-> s]
     : outcome \in RetrievalOutcomes}
  ELSE IF agent_key \in DOMAIN s.agent_paper_cache THEN
    {[context |-> s.agent_paper_cache[agent_key], st |-> s]}
  ELSE
    {[context |-> Placeholder("not_found"), st |-> s]}

(***************************************************************************)
(* format_agent_history: the history given to a free_debate speaker, as    *)
(* the sequence of [label, entry] it formats: the last max_show entries of *)
(* the transcript, each labelled with active_agents[index % N], the index  *)
(* being the 0-based position of the entry in the whole transcript.        *)
(***************************************************************************)
max_show == 6

format_agent_history(messages, active_agents) ==
  LET recent_messages ==
        IF Len(messages) > max_show
        THEN SubSeq(messages, Len(messages) - max_show + 1, Len(messages))
        ELSE messages
  IN [i \in 1..Len(recent_messages) |->
        LET global_msg_idx == Len(messages) - Len(recent_messages) + (i - 1)
            agent_index == global_msg_idx % Len(active_agents)
        IN [label |-> active_agents[agent_index + 1],
            entry |-> recent_messages[i]]]

(***************************************************************************)
(* display_debate_progress of debates.py: the turns it counts as made, the *)
(* total it expects, and the overall percentage it shows.                  *)
(***************************************************************************)
total_counted(current_stage, stage_progress, active_agents, max_rounds) ==
  IF current_stage = "opening" THEN stage_progress
  ELSE IF current_stage = "questioning" THEN Len(active_agents) + stage_progress
  ELSE IF current_stage = "free_debate" THEN
    Len(active_agents) + Len(active_agents) * 2 + stage_progress
  ELSE IF current_stage = "closing" THEN
    Len(active_agents) + Len(active_agents) * 2
      + Len(active_agents) * max_rounds + stage_progress
  ELSE 0

total_expected(active_agents, max_rounds) == Len(active_agents) * (3 + max_rounds)

\* min(int((total_messages / total_expected) * 100), 100)
display_debate_progress(current_stage, stage_progress, active_agents, max_rounds) ==
  LET total_messages ==
        total_counted(current_stage, stage_progress, active_agents, max_rounds)
      percent == (total_messages * 100) \div total_expected(active_agents, max_rounds)
  IN IF percent < 100 THEN percent ELSE 100

(***************************************************************************)
(* The turn generators.  `response` is what pipe.invoke does: "ok" (text   *)
(* returned) or "raise".  Each result is [raised, update, st]: whether an  *)
(* exception left the generator, the update dict it returned otherwise,    *)
(* and the state object as the generator leaves it.                        *)
(***************************************************************************)
\* Deliberately wrong variant: the fallback message is not counted as a turn.
ErrorUpdate_uncounted(s, agent_key, kind) ==
  [messages |-> <<Msg(agent_key, s.current_stage, kind)>>,
   total_messages |-> s.total_messages,
   stage_progress |-> s.stage_progress + 1]

\* The fallback dict built at every error exit: one message, both counters.
ErrorUpdate(s, agent_key, kind) ==
  [messages |-> <<Msg(agent_key, s.current_stage, kind)>>,
   total_messages |-> s.total_messages + 1,
   stage_progress |-> s.stage_progress + 1]

Raised(st) == [raised |-> TRUE, update |-> EmptyDict, st |-> st]

Returned(update, st) == [raised |-> FALSE, update |-> update, st |-> st]

\* Deliberately wrong variant: a failed retrieval fails the turn.
_generate_opening_statement_needs_context(s, agent_key, response) ==
  {IF response = "raise" \/ rag.context = Placeholder("rag_error")
   THEN Raised(rag.st)
   ELSE
     LET st == rag.st
         base == [messages |-> <<Msg(agent_key, st.current_stage, "opening")>>,
                  total_messages |-> st.total_messages + 1,
                  stage_progress |-> st.stage_progress + 1,
                  opening_statements |->
                    DictSet(st.opening_statements, agent_key, "statement")]
     IN IF agent_key \in Range(st.first_round_rag_completed)
        THEN Returned(base @@ [agent_paper_cache |-> st.agent_paper_cache,
                               first_round_rag_completed |-> st.first_round_rag_completed],
                      st)
        ELSE Returned(base, st)
   : rag \in get_rag_context_for_agent(agent_key, s)}

_generate_opening_statement(s, agent_key, response) ==
  {IF response = "raise" THEN Raised(rag.st)
   ELSE
     LET st == rag.st
         base == [messages |-> <<Msg(agent_key, st.current_stage, "opening")>>,
                  total_messages |-> st.total_messages + 1,
                  stage_progress |-> st.stage_progress + 1,
                  opening_statements |->
                    DictSet(st.opening_statements, agent_key, "statement")]
     IN IF agent_key \in Range(st.first_round_rag_completed)
        THEN Returned(base @@ [agent_paper_cache |-> st.agent_paper_cache,
                               first_round_rag_completed |-> st.first_round_rag_completed],
                      st)
        ELSE Returned(base, st)
   : rag \in get_rag_context_for_agent(agent_key, s)}

\* Deliberately wrong variant: the question does not set waiting_for_answer.
_generate_question_not_waiting(s, agent_key, response) ==
  UNION {
    IF agent_key # p[1] THEN
      {Returned(ErrorUpdate(s, agent_key, "not_my_turn"), s)}
    ELSE
      {IF response = "raise" THEN Raised(rag.st)
       ELSE
         LET st == rag.st IN
         Returned([messages |-> <<Msg(agent_key, st.current_stage, "question")>>,
                   total_messages |-> st.total_messages + 1,
                   stage_progress |-> st.stage_progress + 1,
                   questions_asked |->
                     Append(st.questions_asked,
                            [questioner |-> agent_key, target |-> p[2],
                             question |-> "question", answer |-> ""]),
                   current_questioner |-> agent_key,
                   current_target |-> p[2],
                   waiting_for_answer |-> FALSE],
                  st)
       : rag \in get_rag_context_for_agent(agent_key, s)}
    : p \in select_next_questioner_and_target(s.active_agents, s.questions_asked)}

_generate_question(s, agent_key, response) ==
  UNION {
    IF agent_key # p[1] THEN
      {Returned(ErrorUpdate(s, agent_key, "not_my_turn"), s)}
    ELSE
      {IF response = "raise" THEN Raised(rag.st)
       ELSE
         LET st == rag.st IN
         Returned([messages |-> <<Msg(agent_key, st.current_stage, "question")>>,
                   total_messages |-> st.total_messages + 1,
                   stage_progress |-> st.stage_progress + 1,
                   questions_asked |->
                     Append(st.questions_asked,
                            [questioner |-> agent_key, target |-> p[2],
                             question |-> "question", answer |-> ""]),
                   current_questioner |-> agent_key,
                   current_target |-> p[2],
                   waiting_for_answer |-> TRUE],
                  st)
       : rag \in get_rag_context_for_agent(agent_key, s)}
    : p \in select_next_questioner_and_target(s.active_agents, s.questions_asked)}

\* Deliberately wrong variant: the answer clears the cursor but leaves
\* waiting_for_answer set.
_generate_answer_keeps_waiting(s, agent_key, response) ==
  IF s.questions_asked = <<>> THEN
    {Returned(ErrorUpdate(s, agent_key, "no_question"), s)}
  ELSE
    {IF response = "raise" THEN Raised(s)
     ELSE
       LET updated_questions ==
             [s.questions_asked EXCEPT ![Len(s.questions_asked)].answer = "answer"]
       IN Returned([messages |-> <<Msg(agent_key, s.current_stage, "answer")>>,
                    total_messages |-> s.total_messages + 1,
                    stage_progress |-> s.stage_progress + 1,
                    questions_asked |-> updated_questions,
                    current_questioner |-> "",
                    current_target |-> ""],
                   s)}

\* Deliberately wrong variant: the answer goes into the oldest record.
_generate_answer_fills_first(s, agent_key, response) ==
  IF s.questions_asked = <<>> THEN
    {Returned(ErrorUpdate(s, agent_key, "no_question"), s)}
  ELSE
    {IF response = "raise" THEN Raised(rag.st)
     ELSE
       LET updated_questions ==
             [rag.st.questions_asked EXCEPT ![1].answer = "answer"]
           \* the list copy is shallow: the record of the state is filled too
           st == [rag.st EXCEPT !.questions_asked = updated_questions]
       IN Returned([messages |-> <<Msg(agent_key, st.current_stage, "answer")>>,
                    total_messages |-> st.total_messages + 1,
                    stage_progress |-> st.stage_progress + 1,
                    questions_asked |-> updated_questions,
                    waiting_for_answer |-> FALSE,
                    current_questioner |-> "",
                    current_target |-> ""],
                   st)
     : rag \in get_rag_context_for_agent(agent_key, s)}

\* Deliberately wrong variant: the answer clears the flag but not the cursor.
_generate_answer_keeps_cursor(s, agent_key, response) ==
  IF s.questions_asked = <<>> THEN
    {Returned(ErrorUpdate(s, agent_key, "no_question"), s)}
  ELSE
    {IF response = "raise" THEN Raised(rag.st)
     ELSE
       LET updated_questions ==
             [rag.st.questions_asked EXCEPT ![Len(rag.st.questions_asked)].answer = "answer"]
           \* the list copy is shallow: the record of the state is filled too
           st == [rag.st EXCEPT !.questions_asked = updated_questions]
       IN Returned([messages |-> <<Msg(agent_key, st.current_stage, "answer")>>,
                    total_messages |-> st.total_messages + 1,
                    stage_progress |-> st.stage_progress + 1,
                    questions_asked |-> updated_questions,
                    waiting_for_answer |-> FALSE,
                    current_questioner |-> st.current_questioner,
                    current_target |-> st.current_target],
                   st)
     : rag \in get_rag_context_for_agent(agent_key, s)}

_generate_answer(s, agent_key, response) ==
  IF s.questions_asked = <<>> THEN
    {Returned(ErrorUpdate(s, agent_key, "no_question"), s)}
  ELSE
    {IF response = "raise" THEN Raised(rag.st)
     ELSE
       LET updated_questions ==
             [rag.st.questions_asked EXCEPT ![Len(rag.st.questions_asked)].answer = "answer"]
           \* the list copy is shallow: the record of the state is filled too
           st == [rag.st EXCEPT !.questions_asked = updated_questions]
       IN Returned([messages |-> <<Msg(agent_key, st.current_stage, "answer")>>,
                    total_messages |-> st.total_messages + 1,
                    stage_progress |-> st.stage_progress + 1,
                    questions_asked |-> updated_questions,
                    waiting_for_answer |-> FALSE,
                    current_questioner |-> "",
                    current_target |-> ""],
                   st)
     : rag \in get_rag_context_for_agent(agent_key, s)}

_generate_free_debate_response(s, agent_key, response) ==
  {IF response = "raise" THEN Raised(rag.st)
   ELSE
     LET st == rag.st IN
     Returned([messages |-> <<Msg(agent_key, st.current_stage, "free_debate")>>,
               total_messages |-> st.total_messages + 1,
               stage_progress |-> st.stage_progress + 1],
              st)
   : rag \in get_rag_context_for_agent(agent_key, s)}

_generate_closing_statement(s, agent_key, response) ==
  {IF response = "raise" THEN Raised(rag.st)
   ELSE
     LET st == rag.st IN
     Returned([messages |-> <<Msg(agent_key, st.current_stage, "closing")>>,
               total_messages |-> st.total_messages + 1,
               stage_progress |-> st.stage_progress + 1,
               closing_statements |->
                 DictSet(st.closing_statements, agent_key, "statement")],
              st)
   : rag \in get_rag_context_for_agent(agent_key, s)}

\* What pipe.invoke can do on one call.
InferenceOutcomes ==
  IF inference = "ok" THEN {"ok"}
  ELSE IF inference = "down" THEN {"raise"}
  ELSE {"ok", "raise"}

\* Deliberately wrong variant: an exception of the generator is not caught
\* (the update it carries is the one the caller would build).
_generate_agent_response_reraises(s, agent_key) ==
  IF deepseek = "None" THEN
    {Returned(ErrorUpdate(s, agent_key, "apology"), s)}
  ELSE
    {IF r.raised
     THEN [raised |-> TRUE,
           update |-> ErrorUpdate(r.st, agent_key, "apology"),
           st |-> r.st]
     ELSE Returned(r.update, r.st)
     : r \in UNION {
         IF s.current_stage = "opening" THEN
           _generate_opening_statement(s, agent_key, response)
         ELSE IF s.current_stage = "questioning" THEN
           IF s.waiting_for_answer /\ s.current_target = agent_key
           THEN _generate_answer(s, agent_key, response)
           ELSE _generate_question(s, agent_key, response)
         ELSE IF s.current_stage = "free_debate" THEN
           _generate_free_debate_response(s, agent_key, response)
         ELSE IF s.current_stage = "closing" THEN
           _generate_closing_statement(s, agent_key, response)
         ELSE
           {Returned(ErrorUpdate(s, agent_key, "unknown_stage"), s)}
         : response \in InferenceOutcomes}}

\* _generate_agent_response: the results [raised, update, st] of one turn.
\* Every exception of a generator is caught and turned into the fallback
\* update, so no result has raised = TRUE.
_generate_agent_response(s, agent_key) ==
  IF deepseek = "None" THEN
    {Returned(ErrorUpdate(s, agent_key, "apology"), s)}
  ELSE
    {IF r.raised
     THEN Returned(ErrorUpdate(r.st, agent_key, "apology"), r.st)
     ELSE Returned(r.update, r.st)
     : r \in UNION {
         IF s.current_stage = "opening" THEN
           _generate_opening_statement(s, agent_key, response)
         ELSE IF s.current_stage = "questioning" THEN
           IF s.waiting_for_answer /\ s.current_target = agent_key
           THEN _generate_answer(s, agent_key, response)
           ELSE _generate_question(s, agent_key, response)
         ELSE IF s.current_stage = "free_debate" THEN
           _generate_free_debate_response(s, agent_key, response)
         ELSE IF s.current_stage = "closing" THEN
           _generate_closing_statement(s, agent_key, response)
         ELSE
           {Returned(ErrorUpdate(s, agent_key, "unknown_stage"), s)}
         : response \in InferenceOutcomes}}

\* The caps that keep the model finite.  Service "flaky": a failed call is
\* drawn only while fewer than MaxFail have failed, and a turn of the
\* questioning stage that records nothing only while fewer than MaxExtra
\* have.  Service "down": a failed turn of the questioning stage is drawn
\* while the stage has made fewer than 2N + MaxStall turns, and a turn that
\* never reached the inference call while fewer than MaxExtra have.
WithinBounds(s, r) ==
  LET m == r.update.messages[1]
      in_questioning == m.stage = "questioning"
  IN IF inference = "down" THEN
       /\ (in_questioning /\ m.kind = "apology")
            => s.stage_progress < 2 * Len(s.active_agents) + MaxStall
       /\ (in_questioning /\ m.kind \in {"not_my_turn", "no_question"})
            => Slips(s) < MaxExtra
     ELSE
       /\ m.kind = "apology" => Fails(s) < MaxFail
       /\ (in_questioning /\ m.kind \in {"apology", "not_my_turn", "no_question"})
            => Extra(s) < MaxExtra

(***************************************************************************)
(* Two debates in one process.  The module globals deepseek and rag_module *)
(* are shared and only read; each call of generate_response builds its own *)
(* inputs dict, whose agent_paper_cache dict and                           *)
(* first_round_rag_completed list are the objects the turns write to in    *)
(* place.                                                                  *)
(***************************************************************************)
NoInstance == [id |-> 0]

\* The debate that is running.
running == IF suspended.id = 2 THEN 1 ELSE 2

\* Deliberately wrong variant: one cache dict and one completed list, made
\* when the module is loaded, serve every debate.
containers_module_level(id) == 0

\* The identity of the cache dict and the completed list of debate `id`:
\* the literals of the inputs dict are evaluated once per debate.
containers(id) == id

\* The suspended debate after a step of the running one that leaves the
\* running one's state dict as `after`: objects the two debates share show
\* the writes of the step, everything else is as it was.
after_step(other, after) ==
  IF other = NoInstance THEN other
  ELSE IF containers(other.id) = containers(running) THEN
    [other EXCEPT
       !.state.agent_paper_cache = after.agent_paper_cache,
       !.state.first_round_rag_completed = after.first_round_rag_completed]
  ELSE other

(***************************************************************************)
(* The nodes of the graph.                                                 *)
(***************************************************************************)
\* Deliberately wrong variant: the transition keeps stage_progress.
handle_stage_transition_keeps_progress(s, target_stage) ==
  LET update_data ==
        [current_stage |-> target_stage,
         messages |-> <<Msg("system", target_stage, "transition")>>]
  IN /\ state' = Apply(s, update_data)
     /\ node' \in determine_next_node(Merge(s, update_data))

\* Deliberately wrong variant: the transition announces nothing.
handle_stage_transition_silent(s, target_stage) ==
  LET update_data == [current_stage |-> target_stage,
                      stage_progress |-> 0,
                      messages |-> <<>>]
  IN /\ state' = Apply(s, update_data)
     /\ node' \in determine_next_node(Merge(s, update_data))

\* Deliberately wrong variant: the announcement is counted as a turn and
\* every entry resets the question ledger.
handle_stage_transition_counts_turn(s, target_stage) ==
  LET update_data == [current_stage |-> target_stage,
                      stage_progress |-> 0,
                      messages |-> <<Msg("system", target_stage, "transition")>>,
                      total_messages |-> s.total_messages + 1,
                      questions_asked |-> <<>>]
  IN /\ state' = Apply(s, update_data)
     /\ node' \in determine_next_node(Merge(s, update_data))

\* handle_stage_transition: the Command it returns, applied.
handle_stage_transition(s, target_stage) ==
  LET base == [current_stage |-> target_stage,
               stage_progress |-> 0,
               messages |-> <<Msg("system", target_stage, "transition")>>]
      update_data ==
        IF target_stage = "questioning"
        THEN base @@ [questions_asked |-> <<>>,
                      current_questioner |-> "",
                      current_target |-> "",
                      waiting_for_answer |-> FALSE]
        ELSE base
  IN /\ state' = Apply(s, update_data)
     /\ node' \in determine_next_node(Merge(s, update_data))

\* agent_node of create_agent_node_function(agent_key).  An exception that
\* leaves _generate_agent_response is handled by the inner except: the
\* 'technical problem' message and goto END.  The outer except handler is
\* not modelled: determine_next_node raises nothing for a graph that
\* create_multi_agent_graph accepted.
agent_node(agent_key) ==
  /\ node = agent_key
  /\ \E next_node \in determine_next_node(state) :
       IF next_node \in StageNodes THEN
         handle_stage_transition(state, next_node)
       ELSE IF next_node = END THEN
         /\ state' = state
         /\ node' = END
       ELSE IF next_node # agent_key THEN
         /\ state' = state
         /\ node' = next_node
       ELSE
         \E r \in _generate_agent_response(state, agent_key) :
           /\ WithinBounds(state, r)
           /\ IF r.raised THEN
                /\ state' = Apply(r.st, ErrorUpdate(r.st, agent_key, "technical_problem"))
                /\ node' = END
              ELSE
                /\ state' = Apply(r.st, r.update)
                /\ node' \in determine_next_node(Merge(r.st, r.update))
  /\ retrieved' =
       IF /\ determine_next_node(state) = {agent_key}
          /\ deepseek # "None"
          /\ invokes_retrieval(agent_key, state)
       THEN [retrieved EXCEPT ![agent_key] = @ + 1]
       ELSE retrieved
  /\ suspended' = after_step(suspended, state')
  /\ UNCHANGED <<deepseek, rag_module, inference>>

\* The nodes "questioning", "free_debate" and "closing".
transition_node(target_stage) ==
  /\ node = target_stage
  /\ handle_stage_transition(state, target_stage)
  /\ suspended' = after_step(suspended, state')
  /\ UNCHANGED <<deepseek, rag_module, inference, retrieved>>

(***************************************************************************)
(* generate_response of debates.py up to the start of the graph, and the   *)
(* initial state: the inputs dict, for a graph that                        *)
(* create_multi_agent_graph accepted.                                      *)
(***************************************************************************)
\* preload_rag_for_all_agents: the outcomes of the loop over the selected
\* participants.  `calls` is the number of participants the retrieval
\* collaborator was called for: all of them, or the first i when call i
\* raised.
preload_rag_for_all_agents(selected_agents) ==
  IF rag_module = "None" THEN
    {[success |-> FALSE, calls |-> 0]}
  ELSE
    {[success |-> TRUE, calls |-> Len(selected_agents)]}
      \cup {[success |-> FALSE, calls |-> i] : i \in 1..Len(selected_agents)}

\* generate_response: its own checks of the selection.
selection_accepted(selected_agents) ==
  /\ selected_agents # <<>>
  /\ Len(selected_agents) >= MinAgents
  /\ Len(selected_agents) <= MaxAgents

\* Deliberately wrong variant: the keys are not looked up in the registry.
create_multi_agent_graph_any_key(active_agents) ==
  IF Len(active_agents) < MinAgents THEN "ValueError"
  ELSE IF Len(active_agents) > MaxAgents THEN "ValueError"
  ELSE "graph"

\* create_multi_agent_graph: a compiled graph, or the ValueError raised.
create_multi_agent_graph(active_agents) ==
  IF Len(active_agents) < MinAgents THEN "ValueError"
  ELSE IF Len(active_agents) > MaxAgents THEN "ValueError"
  ELSE IF \E i \in 1..Len(active_agents) : active_agents[i] \notin AVAILABLE_ROLES
  THEN "ValueError"
  ELSE "graph"

\* generate_response: the checks of the selection and the construction of
\* the graph (a rejected selection returns at once), the preload when
\* retrieval is enabled, then the edge from START to the first participant.
\* After a failed preload the debate is not run, unless the user asks to
\* continue without retrieval.
generate_response ==
  /\ node = START
  /\ IF \/ ~selection_accepted(state.active_agents)
        \/ create_multi_agent_graph(state.active_agents) = "ValueError" THEN
       /\ retrieved' = retrieved
       /\ state' = state
       /\ node' = RETURNED
     ELSE IF state.rag_enabled THEN
       \E preload_result \in preload_rag_for_all_agents(state.active_agents) :
         /\ retrieved' =
              [a \in AVAILABLE_ROLES |->
                 IF \E i \in 1..preload_result.calls : state.active_agents[i] = a
                 THEN retrieved[a] + 1
                 ELSE retrieved[a]]
         /\ IF preload_result.success THEN
              /\ state' = state
              /\ node' = state.active_agents[1]
            ELSE
              \E continue_without \in BOOLEAN :
                IF continue_without THEN
                  /\ state' = [state EXCEPT !.rag_enabled = FALSE]
                  /\ node' = state.active_agents[1]
                ELSE
                  /\ state' = state
                  /\ node' = RETURNED
     ELSE
       /\ retrieved' = retrieved
       /\ state' = state
       /\ node' = state.active_agents[1]
  /\ suspended' = after_step(suspended, state')
  /\ UNCHANGED <<deepseek, rag_module, inference>>

Inputs(active_agents, max_rounds, rag_enabled) ==
  [messages |-> <<>>,
   current_stage |-> "opening",
   stage_progress |-> 0,
   max_rounds |-> max_rounds,
   active_agents |-> active_agents,
   total_messages |-> 0,
   rag_enabled |-> rag_enabled,
   agent_paper_cache |-> EmptyDict,
   first_round_rag_completed |-> <<>>,
   questions_asked |-> <<>>,
   current_questioner |-> "",
   current_target |-> "",
   waiting_for_answer |-> FALSE,
   opening_statements |-> EmptyDict,
   closing_statements |-> EmptyDict]

\* The initial states with the participant counts, round limits, retrieval
\* switch and collaborators drawn from the given sets.
InitWith(counts, rounds, rag_switch, models, rag_modules, services) ==
  /\ \E n \in counts, max_rounds \in rounds, rag_enabled \in rag_switch :
        /\ state = Inputs(SubSeq(AgentPool, 1, n), max_rounds, rag_enabled)
        /\ node = START
  /\ retrieved = [a \in AVAILABLE_ROLES |-> 0]
  /\ suspended = NoInstance
  /\ deepseek \in models
  /\ rag_module \in rag_modules
  /\ inference \in services
  /\ deepseek = "None" => inference = "down"

\* Runs in which inference can fail, with the smallest debate: a client
\* whose calls fail now and then, or no client at all.
Init ==
  \/ InitWith({MinAgents}, {1, MaxRounds}, {FALSE}, {"client"}, {"module"}, {"flaky"})
  \/ InitWith({MinAgents}, {1, MaxRounds}, {FALSE}, {"None"}, {"module"}, {"down"})

\* Runs in which every inference call succeeds, for every debate size.
InitClean ==
  InitWith(MinAgents..(MinAgents + ExtraAgents), {1, MaxRounds}, {FALSE},
           {"client"}, {"module"}, {"ok"})

\* Failure-free runs of the smallest debate, for the checks under fairness.
InitFair ==
  InitWith({MinAgents}, {1, MaxRounds}, {FALSE}, {"client"}, {"module"}, {"ok"})

\* Runs of the smallest debate with retrieval switched on: a retrieval
\* module that finds material, finds nothing or raises, or no module.
InitRag ==
  \/ InitWith({MinAgents}, {1}, {TRUE}, {"client"}, {"module"}, {"flaky"})
  \/ InitWith({MinAgents}, {1}, {TRUE}, {"client"}, {"None"}, {"ok"})

\* Selections that construction accepts or rejects: none, too few, the
\* least accepted, too many, and one with a key that is not registered.
Selections ==
  {SubSeq(AgentPool, 1, n) : n \in {0, MinAgents - 1, MinAgents}}
    \cup {AgentPool \o <<AgentPool[1]>>}
    \cup {SubSeq(AgentPool, 1, MinAgents - 1) \o <<"moderator">>}

InitSelections ==
  /\ \E selected_agents \in Selections :
       state = Inputs(selected_agents, 1, TRUE)
  /\ node = START
  /\ retrieved = [a \in AVAILABLE_ROLES |-> 0]
  /\ suspended = NoInstance
  /\ deepseek = "client"
  /\ rag_module = "module"
  /\ inference = "ok"

\* Runs in which every inference call raises.
InitDown ==
  InitWith({MinAgents}, {1}, {FALSE}, {"client"}, {"module"}, {"down"})

Next ==
  \/ generate_response
  \/ \E agent_key \in AVAILABLE_ROLES : agent_node(agent_key)
  \/ \E target_stage \in StageNodes : transition_node(target_stage)

Spec == Init /\ [][Next]_vars

SpecClean == InitClean /\ [][Next]_vars

SpecDown == InitDown /\ [][Next]_vars

SpecRag == InitRag /\ [][Next]_vars

SpecSelections == InitSelections /\ [][Next]_vars

\* The compiled graph entered at its START edge with a state dict that the
\* caller supplies: questioning-stage states of every ledger length, an
\* answer pending or not, whose current_target is empty, a role that is not
\* taking part, an unregistered key, or a participant.
QuestionLedger(active_agents, len) ==
  [i \in 1..len |->
     [questioner |-> active_agents[((i - 1) % Len(active_agents)) + 1],
      target |-> active_agents[(i % Len(active_agents)) + 1],
      question |-> "question",
      answer |-> IF i = len THEN "" ELSE "answer"]]

InitQuestioning ==
  /\ \E max_rounds \in {1, MaxRounds},
        len \in 0..(MinAgents + 1),
        waiting_for_answer \in BOOLEAN,
        current_target \in {"", AgentPool[MinAgents + 1], "moderator", AgentPool[2]} :
       LET active_agents == SubSeq(AgentPool, 1, MinAgents) IN
       state = [Inputs(active_agents, max_rounds, FALSE) EXCEPT
                  !.current_stage = "questioning",
                  !.stage_progress = 2 * len,
                  !.total_messages = MinAgents + 2 * len,
                  !.questions_asked = QuestionLedger(active_agents, len),
                  !.waiting_for_answer = waiting_for_answer,
                  !.current_questioner = IF waiting_for_answer THEN AgentPool[1] ELSE "",
                  !.current_target = IF waiting_for_answer THEN current_target ELSE ""]
  /\ node = AgentPool[1]
  /\ retrieved = [a \in AVAILABLE_ROLES |-> 0]
  /\ suspended = NoInstance
  /\ deepseek = "client"
  /\ rag_module = "module"
  /\ inference = "flaky"

\* The steps of the compiled graph.
NextGraph ==
  \/ \E agent_key \in AVAILABLE_ROLES : agent_node(agent_key)
  \/ \E target_stage \in StageNodes : transition_node(target_stage)

SpecQuestioning == InitQuestioning /\ [][NextGraph]_vars

\* The thread of the running debate is descheduled and the thread of the
\* other debate runs.
switch_instance ==
  /\ suspended # NoInstance
  /\ suspended.switches < MaxSwitch
  /\ state.total_messages <= MaxLead
  /\ state' = suspended.state
  /\ node' = suspended.node
  /\ retrieved' = suspended.retrieved
  /\ suspended' = [id |-> running,
                   state |-> state,
                   node |-> node,
                   retrieved |-> retrieved,
                   switches |-> suspended.switches + 1]
  /\ UNCHANGED <<deepseek, rag_module, inference>>

\* Two debates started in one process, each from its own inputs dict, with
\* different selections; retrieval is on and every inference call succeeds.
InitTwo ==
  /\ state = Inputs(SubSeq(AgentPool, 1, MinAgents), 1, TRUE)
  /\ node = START
  /\ retrieved = [a \in AVAILABLE_ROLES |-> 0]
  /\ suspended = [id |-> 2,
                  state |-> Inputs(SubSeq(AgentPool, 2, MinAgents + 1), 1, TRUE),
                  node |-> START,
                  retrieved |-> [a \in AVAILABLE_ROLES |-> 0],
                  switches |-> 0]
  /\ deepseek = "client"
  /\ rag_module = "module"
  /\ inference = "ok"

NextTwo == Next \/ switch_instance

SpecTwo == InitTwo /\ [][NextTwo]_vars

\* A step that records a question: the node the scheduler drew is the node
\* running, and the generator drew it again.
AskQuestion ==
  /\ Next
  /\ Len(state'.questions_asked) = Len(state.questions_asked) + 1

\* The graph runs a node whenever one is due, and the two independent
\* random.choice draws of a question-turn do not disagree for ever.
SpecCleanFair ==
  InitFair /\ [][Next]_vars /\ WF_vars(Next) /\ WF_vars(AskQuestion)

(***************************************************************************)
(* Observations used by the claims.                                        *)
(***************************************************************************)
N == Len(state.active_agents)

Terminated == node = END

Stages == <<"opening", "questioning", "free_debate", "closing">>

C2_ExactlyTwoNQuestioningTurns ==
  Terminated => Turns(state, "questioning") = 2 * N

C2_Witness ==
  /\ Terminated
  /\ Turns(state, "questioning") = 2 * N + MaxExtra

(***************************************************************************)
(* C3.  With inference failing on every turn the debate produces the same  *)
(* number of participant turns as a failure-free run and goes on to the    *)
(* later stages: the questioning stage never holds more than 2N turns.     *)
(***************************************************************************)
C3_AllFailLeavesQuestioning ==
  (inference = "down" /\ state.current_stage = "questioning")
    => state.stage_progress <= 2 * N

(***************************************************************************)
(* C4.  A failed turn consumes its slot: a run to Terminate in which every *)
(* questioner draw agreed has N, 2N, N * max_rounds and N participant      *)
(* turns in the four stages, whether or not inference calls failed.        *)
(***************************************************************************)
C4_FailedTurnConsumesSlot ==
  (Terminated /\ Slips(state) = 0) =>
    /\ Turns(state, "opening") = N
    /\ Turns(state, "questioning") = 2 * N
    /\ Turns(state, "free_debate") = N * state.max_rounds
    /\ Turns(state, "closing") = N

StageSuccessor ==
  {<<Stages[i], Stages[i + 1]>> : i \in 1..(Len(Stages) - 1)}

(***************************************************************************)
(* C6.  The stage only advances opening -> questioning -> free_debate ->   *)
(* closing -> done: every change of stage is to the immediate successor,   *)
(* the run ends from closing only, and nothing runs after the end.         *)
(***************************************************************************)
C6_StageOrder ==
  [][/\ state'.current_stage # state.current_stage
          => <<state.current_stage, state'.current_stage>> \in StageSuccessor
     /\ (node # END /\ node' = END) => state.current_stage = "closing"
     /\ node = END => (node' = END /\ state' = state)]_vars

C6_Witness ==
  /\ Terminated
  /\ Fails(state) >= 1
  /\ KindCount(state, {"transition"}) = 3

(***************************************************************************)
(* C7.  In the questioning stage, waiting_for_answer implies that          *)
(* current_target is an active participant, that the scheduler returns     *)
(* exactly current_target, and that current_target is the node due to run. *)
(***************************************************************************)
C7_AnswerForced ==
  (state.current_stage = "questioning" /\ state.waiting_for_answer) =>
    /\ state.current_target \in Range(state.active_agents)
    /\ determine_next_node(state) = {state.current_target}
    /\ node = state.current_target

C7_Witness ==
  /\ state.current_stage = "questioning"
  /\ state.waiting_for_answer
  /\ state.messages[Len(state.messages)].kind = "apology"
  /\ state.messages[Len(state.messages)].speaker = state.current_target

\* The QA record of the question-turn at transcript position i.
RecordOfQuestionAt(i) ==
  state.questions_asked[
    Cardinality({j \in 1..i : state.messages[j].kind = "question"})]

(***************************************************************************)
(* C8.  After a question-turn addressed to target t the very next          *)
(* transcript entry is t's answer to that question.                        *)
(***************************************************************************)
C8_AnswerIsNextEntry ==
  \A i \in 1..(Len(state.messages) - 1) :
    state.messages[i].kind = "question" =>
      /\ state.messages[i + 1].kind = "answer"
      /\ state.messages[i + 1].speaker = RecordOfQuestionAt(i).target

\* The questioning stage has handed over to free_debate.
QuestioningOver ==
  \/ node = "free_debate"
  \/ state.current_stage \in {"free_debate", "closing"}

(***************************************************************************)
(* C9.  When the questioning stage ends, every active participant appears  *)
(* as questioner in questions_asked exactly once.                          *)
(***************************************************************************)
C9_EachAsksOnce ==
  QuestioningOver =>
    \A a \in Range(state.active_agents) :
      question_count(state.active_agents, state.questions_asked, a) = 1

C9_Witness ==
  /\ node = "free_debate"
  /\ state.current_stage = "questioning"
  /\ Extra(state) >= 1

(***************************************************************************)
(* C10.  In the questioning stage the numbers of questions authored by any *)
(* two active participants differ by at most 1.                            *)
(***************************************************************************)
C10_AuthorshipSkew ==
  state.current_stage = "questioning" =>
    \A a, b \in Range(state.active_agents) :
      question_count(state.active_agents, state.questions_asked, a)
        - question_count(state.active_agents, state.questions_asked, b) <= 1

C10_Witness ==
  /\ state.current_stage = "questioning"
  /\ Extra(state) >= 1
  /\ \E a, b \in Range(state.active_agents) :
       /\ question_count(state.active_agents, state.questions_asked, a) = 1
       /\ question_count(state.active_agents, state.questions_asked, b) = 0

\* The transcript entry a step appends, if it appends one.
Appended == state'.messages[Len(state'.messages)]

\* A step that appends one transcript entry.
Appends == Len(state'.messages) = Len(state.messages) + 1

\* A step that appends a participant's entry of the given kinds.
Speaks(kinds) ==
  /\ Appends
  /\ Appended.speaker # "system"
  /\ Appended.kind \in kinds

C12_TargetIsNotQuestioner ==
  /\ \A i \in 1..Len(state.questions_asked) :
       state.questions_asked[i].target # state.questions_asked[i].questioner
  /\ state.waiting_for_answer => state.current_target # state.current_questioner

C12_Witness ==
  /\ Len(state.questions_asked) = N
  /\ state.waiting_for_answer
  /\ \E i \in 1..N : state.questions_asked[i].target = state.active_agents[1]

(***************************************************************************)
(* C13.  When the questioning stage is over, every active participant is   *)
(* the target of exactly one QA record (each asks once and answers once).  *)
(***************************************************************************)
C13_EachAnswersOnce ==
  QuestioningOver =>
    \A a \in Range(state.active_agents) :
      target_count(state.active_agents, state.questions_asked, a) = 1

C13_Witness ==
  /\ QuestioningOver
  /\ inference = "ok"
  /\ Slips(state) = 0
  /\ target_count(state.active_agents, state.questions_asked, state.active_agents[N]) = 0

\* A step that appends a participant's entry, whatever its content.
SpeaksAny == Appends /\ Appended.speaker # "system"

(***************************************************************************)
(* C14.  In opening and in closing the turn executed at stage_progress = i *)
(* is spoken by active_agents[i] (0-based) and advances stage_progress to  *)
(* i + 1; once closing has made N turns the scheduler returns END and the  *)
(* run is over.                                                            *)
(***************************************************************************)
C14_RegistrationOrder ==
  [][/\ (SpeaksAny /\ state.current_stage \in {"opening", "closing"}) =>
          /\ state.stage_progress < N
          /\ Appended.speaker = state.active_agents[state.stage_progress + 1]
          /\ Appended.stage = state.current_stage
          /\ state'.stage_progress = state.stage_progress + 1
     /\ (state'.current_stage = "closing" /\ state'.stage_progress = N) =>
          /\ determine_next_node(state') = {END}
          /\ node' = END]_vars

C14_Witness ==
  /\ Terminated
  /\ \E i \in 1..Len(state.messages) :
       /\ state.messages[i].stage = "closing"
       /\ state.messages[i].kind = "apology"
       /\ state.messages[i].speaker = state.active_agents[N]

\* _generate_free_debate_response: the round and the position in the round
\* of the turn made at the given stage_progress.
current_round(s) == (s.stage_progress \div Len(s.active_agents)) + 1

agent_position_in_round(s) == (s.stage_progress % Len(s.active_agents)) + 1

(***************************************************************************)
(* C15.  In free_debate the turn at stage_progress = k is spoken by        *)
(* active_agents[k mod N] in round k div N + 1, which is at most           *)
(* max_rounds and never decreases; the stage changes to closing exactly    *)
(* when stage_progress = N * max_rounds.                                   *)
(***************************************************************************)
C15_RoundRobin ==
  [][/\ (SpeaksAny /\ state.current_stage = "free_debate") =>
          /\ Appended.speaker = state.active_agents[agent_position_in_round(state)]
          /\ current_round(state) <= state.max_rounds
          /\ state'.stage_progress = state.stage_progress + 1
          /\ current_round(state') >= current_round(state)
     /\ (state.current_stage = "free_debate" /\ state'.current_stage # "free_debate")
          => /\ state'.current_stage = "closing"
             /\ state.stage_progress = N * state.max_rounds
     /\ (state'.current_stage = "free_debate"
           /\ state'.stage_progress = N * state'.max_rounds)
          => node' = "closing"
     /\ (state'.current_stage = "free_debate"
           /\ state'.stage_progress < N * state'.max_rounds)
          => node' \in Range(state'.active_agents)]_vars

C15_Witness ==
  /\ state.current_stage = "closing"
  /\ state.max_rounds = MaxRounds
  /\ \A a \in Range(state.active_agents) :
       Cardinality({i \in 1..Len(state.messages) :
                      /\ state.messages[i].stage = "free_debate"
                      /\ state.messages[i].speaker = a}) = MaxRounds
  /\ \E i \in 1..Len(state.messages) :
       state.messages[i].stage = "free_debate" /\ state.messages[i].kind = "apology"

(***************************************************************************)
(* C16.  Every step that changes the stage leaves stage_progress = 0, and  *)
(* no other step resets it: while the stage is unchanged stage_progress    *)
(* never decreases.                                                        *)
(***************************************************************************)
C16_ProgressResetOnStageChange ==
  [][/\ state'.current_stage # state.current_stage => state'.stage_progress = 0
     /\ state'.current_stage = state.current_stage
          => state'.stage_progress >= state.stage_progress]_vars

C16_Witness ==
  /\ state.current_stage = "closing"
  /\ state.stage_progress = 0
  /\ Fails(state) >= 1
  /\ Slips(state) >= 1

(***************************************************************************)
(* C17.  In every run, failed turns included, once the stage has left      *)
(* opening every active participant has an entry in opening_statements,    *)
(* and at termination every active participant has an entry in             *)
(* closing_statements (a dict holds at most one entry per key).            *)
(***************************************************************************)
C17_OneStatementEach ==
  /\ state.current_stage # "opening"
       => DOMAIN state.opening_statements = Range(state.active_agents)
  /\ Terminated
       => DOMAIN state.closing_statements = Range(state.active_agents)

(***************************************************************************)
(* C18.  For any participant the retrieval collaborator is called at most  *)
(* once in a debate run, from its initiation to its termination.           *)
(***************************************************************************)
C18_RetrievedAtMostOnce ==
  \A a \in AVAILABLE_ROLES : retrieved[a] <= 1

\* The participants who have made their opening turn.
OpeningDone(s) ==
  {s.messages[i].speaker : i \in {j \in 1..Len(s.messages) :
                                    /\ s.messages[j].stage = "opening"
                                    /\ s.messages[j].speaker # "system"}}

\* Retrieval is in use in the run.
RetrievalOn == state.rag_enabled /\ rag_module # "None"

(***************************************************************************)
(* C19.  With retrieval enabled, a participant who has made the opening    *)
(* turn is in first_round_rag_completed and has an agent_paper_cache       *)
(* entry, whether the retrieval returned material or nothing.              *)
(***************************************************************************)
C19_FetchedAfterOpeningTurn ==
  RetrievalOn =>
    \A a \in OpeningDone(state) :
      /\ a \in Range(state.first_round_rag_completed)
      /\ a \in DOMAIN state.agent_paper_cache

\* The texts a call of get_rag_context_for_agent can hand to the prompt.
ContextGiven(agent_key, s) ==
  {rag.context : rag \in get_rag_context_for_agent(agent_key, s)}

\* The kinds of entry of a turn that reached its retrieval-context call.
PromptedKinds == {"question", "answer", "free_debate", "closing", "apology"}

(***************************************************************************)
(* C20.  Once a participant's context has been fetched in the opening      *)
(* stage, the cache entry is never overwritten or removed, it is that      *)
(* participant's material, and every later turn of the participant in      *)
(* questioning, free_debate and closing is given exactly the cached text.  *)
(***************************************************************************)
C20_CachedContextReused ==
  [][/\ \A a \in DOMAIN state.agent_paper_cache :
          /\ a \in DOMAIN state'.agent_paper_cache
          /\ state'.agent_paper_cache[a] = state.agent_paper_cache[a]
          /\ state.agent_paper_cache[a] = Context("material", a)
          /\ a \in Range(state.first_round_rag_completed)
     /\ (/\ RetrievalOn
         /\ Speaks(PromptedKinds)
         /\ state.current_stage # "opening"
         /\ Appended.speaker \in DOMAIN state.agent_paper_cache)
          => ContextGiven(Appended.speaker, state)
               = {state.agent_paper_cache[Appended.speaker]}]_vars

C20_Witness ==
  /\ Terminated
  /\ RetrievalOn
  /\ Fails(state) >= 1
  /\ state.active_agents[1] \in DOMAIN state.agent_paper_cache
  /\ state.active_agents[2] \notin DOMAIN state.agent_paper_cache
  /\ state.closing_statements # EmptyDict

(***************************************************************************)
(* C21.  When retrieval is disabled, agent_paper_cache and                 *)
(* first_round_rag_completed are empty in every reachable state, the       *)
(* retrieval collaborator has never been called and is not called by any   *)
(* step, and every turn is given the 'retrieval disabled' placeholder.     *)
(***************************************************************************)
C21_DisabledRetrievalIsInert ==
  [][~state.rag_enabled =>
       /\ DOMAIN state.agent_paper_cache = {}
       /\ state.first_round_rag_completed = <<>>
       /\ \A a \in AVAILABLE_ROLES : retrieved[a] = 0 /\ retrieved'[a] = 0
       /\ \A a \in Range(state.active_agents) :
            ContextGiven(a, state) = {Placeholder("rag_disabled")}
       /\ ~state'.rag_enabled
       /\ DOMAIN state'.agent_paper_cache = {}
       /\ state'.first_round_rag_completed = <<>>]_vars

C21_Witness ==
  /\ Terminated
  /\ ~state.rag_enabled
  /\ rag_module # "None"
  /\ Fails(state) >= 1
  /\ DOMAIN state.opening_statements # {}

\* The configurations the specification calls valid.
ValidConfiguration(active_agents) ==
  /\ Len(active_agents) >= 3
  /\ Len(active_agents) <= 6
  /\ \A i \in 1..Len(active_agents) : active_agents[i] \in AVAILABLE_ROLES

(***************************************************************************)
(* C22.  A debate with fewer than 3 or more than 6 participants, or with   *)
(* a key that is not registered, is rejected before any turn executes and  *)
(* before any state changes: its only step is the return of                *)
(* generate_response, with no transcript entry, no retrieval call and the  *)
(* state as it was.                                                        *)
(***************************************************************************)
C22_InvalidSelectionRejected ==
  [][~ValidConfiguration(state.active_agents) =>
       /\ node = START
       /\ node' = RETURNED
       /\ state' = state
       /\ state.messages = <<>>
       /\ state.total_messages = 0
       /\ retrieved' = retrieved
       /\ \A a \in AVAILABLE_ROLES : retrieved[a] = 0]_vars

C22_Witness ==
  /\ node = RETURNED
  /\ Len(state.active_agents) = MinAgents
  /\ ~ValidConfiguration(state.active_agents)

(***************************************************************************)
(* C23.  No failed inference call and no failed retrieval ends the debate: *)
(* the step to END is taken only in the closing stage with                 *)
(* stage_progress = N, never by the error path of a participant's turn,    *)
(* and a terminated run holds no 'technical problem' entry.                *)
(***************************************************************************)
C23_EndOnlyAfterClosing ==
  [][/\ (node # END /\ node' = END) =>
          /\ state'.current_stage = "closing"
          /\ state'.stage_progress = N
          /\ Turns(state', "closing") = N
     /\ node' = END =>
          KindCount(state', {"technical_problem", "unknown_stage"}) = 0]_vars

C23_Witness ==
  /\ Terminated
  /\ RetrievalOn
  /\ Fails(state) >= 1
  /\ DOMAIN state.agent_paper_cache = {}

(***************************************************************************)
(* C24.  A failed retrieval in a participant's opening turn does not fail  *)
(* the turn: when the inference call succeeds, a turn that called the      *)
(* retrieval collaborator and got no material (the 'technical problem'     *)
(* placeholder is among the contexts handed to the prompt) appends the     *)
(* participant's statement, records it in opening_statements and adds 1 to *)
(* stage_progress.                                                         *)
(***************************************************************************)
C24_RetrievalFailureKeepsTurn ==
  [][(/\ inference = "ok"
      /\ RetrievalOn
      /\ state.current_stage = "opening"
      /\ node \in Range(state.active_agents)
      /\ retrieved'[node] = retrieved[node] + 1
      /\ node \notin Range(state'.first_round_rag_completed))
       => /\ Placeholder("rag_error") \in ContextGiven(node, state)
          /\ Appends
          /\ Appended = Msg(node, "opening", "opening")
          /\ state'.opening_statements =
               DictSet(state.opening_statements, node, "statement")
          /\ state'.stage_progress = state.stage_progress + 1
          /\ state'.total_messages = state.total_messages + 1]_vars

C24_Witness ==
  /\ inference = "ok"
  /\ RetrievalOn
  /\ state.current_stage = "opening"
  /\ state.stage_progress = 1
  /\ retrieved[state.active_agents[1]] = 2
  /\ state.first_round_rag_completed = <<>>
  /\ state.active_agents[1] \in DOMAIN state.opening_statements

\* The positions of the transcript that hold the announcement of `stage`.
Announcements(s, stage) ==
  {i \in 1..Len(s.messages) :
     /\ s.messages[i].speaker = "system"
     /\ s.messages[i].stage = stage}

\* The position of a stage in the order of the four stages.
StageIndex(stage) == CHOOSE k \in 1..4 : Stages[k] = stage

(***************************************************************************)
(* C25.  The transcript holds no announcement for opening; the entries of  *)
(* the transcript are in stage order, and the first entry of each of       *)
(* questioning, free_debate and closing, and no other entry, is that       *)
(* stage's announcement, so that each stage is announced once, before its  *)
(* first participant turn; a terminated debate holds exactly 3             *)
(* announcements, one for each of the three stages, and ends with a        *)
(* participant's closing entry, not with an announcement.                  *)
(***************************************************************************)
C25_ThreeAnnouncements ==
  LET m == state.messages
  IN /\ Announcements(state, "opening") = {}
     /\ \A i \in 1..Len(m) :
          /\ i > 1 => StageIndex(m[i - 1].stage) <= StageIndex(m[i].stage)
          /\ m[i].speaker = "system" <=> m[i].kind = "transition"
          /\ m[i].speaker = "system"
               <=> /\ m[i].stage \in StageNodes
                   /\ (i = 1 \/ m[i - 1].stage # m[i].stage)
     /\ Terminated =>
          /\ \A stage \in StageNodes :
               Cardinality(Announcements(state, stage)) = 1
          /\ KindCount(state, {"transition"}) = 3
          /\ m[Len(m)].speaker # "system"
          /\ m[Len(m)].stage = "closing"

C25_Witness ==
  /\ Terminated
  /\ KindCount(state, {"transition"}) = 3
  /\ state.max_rounds = MaxRounds
  /\ Len(state.messages) >= 3 + N * (3 + MaxRounds)

\* A step that handles a stage transition.
HandlesTransition ==
  \/ state'.current_stage # state.current_stage
  \/ Appends /\ Appended.speaker = "system"

\* The fields of the state a transition into `stage` may write.
TransitionWrites(stage) ==
  {"current_stage", "stage_progress", "messages"}
    \cup IF stage = "questioning"
         THEN {"questions_asked", "current_questioner", "current_target",
               "waiting_for_answer"}
         ELSE {}

(***************************************************************************)
(* C26.  A step that handles a transition sets current_stage to the stage  *)
(* entered, sets stage_progress to 0 and appends one announcement; on      *)
(* entry into questioning it also resets questions_asked,                  *)
(* current_questioner, current_target and waiting_for_answer; every other  *)
(* field (opening_statements, closing_statements, agent_paper_cache,       *)
(* first_round_rag_completed, total_messages, active_agents, max_rounds,   *)
(* rag_enabled, and the four questioning fields on entry into free_debate  *)
(* and closing) is left as it was.                                         *)
(***************************************************************************)
C26_TransitionFrame ==
  [][HandlesTransition =>
       /\ <<state.current_stage, state'.current_stage>> \in StageSuccessor
       /\ state'.stage_progress = 0
       /\ state'.messages =
            Append(state.messages, Msg("system", state'.current_stage, "transition"))
       /\ state'.current_stage = "questioning" =>
            /\ state'.questions_asked = <<>>
            /\ state'.current_questioner = ""
            /\ state'.current_target = ""
            /\ state'.waiting_for_answer = FALSE
       /\ \A k \in DOMAIN state \ TransitionWrites(state'.current_stage) :
            state'[k] = state[k]]_vars

C26_Witness ==
  /\ state.current_stage = "free_debate"
  /\ state.stage_progress = 0
  /\ state.messages[Len(state.messages)].speaker = "system"
  /\ Len(state.questions_asked) = N
  /\ DOMAIN state.agent_paper_cache # {}
  /\ DOMAIN state.opening_statements # {}

\* An answer is pending from nobody who takes part.
TargetInvalid(s) ==
  /\ s.current_stage = "questioning"
  /\ s.waiting_for_answer
  /\ (s.current_target = "" \/ s.current_target \notin Range(s.active_agents))

(***************************************************************************)
(* C27.  In a questioning-stage state with waiting_for_answer true and     *)
(* current_target empty or not among active_agents, determine_next_node    *)
(* returns "free_debate" whatever the length of questions_asked, and the   *)
(* step taken from such a state enters free_debate and hands the turn to   *)
(* the first participant: the run does not go to END.                      *)
(***************************************************************************)
C27_InvalidTargetFallsBack ==
  [][TargetInvalid(state) =>
       /\ determine_next_node(state) = {"free_debate"}
       /\ state'.current_stage = "free_debate"
       /\ state'.stage_progress = 0
       /\ node' = state.active_agents[1]
       /\ node' # END]_vars

C27_Witness ==
  /\ state.current_stage = "free_debate"
  /\ state.waiting_for_answer
  /\ state.current_target = "moderator"
  /\ Len(state.questions_asked) = 0
  /\ Turns(state, "free_debate") >= 1

(***************************************************************************)
(* C28.  In a questioning-stage state with no answer pending, a turn of    *)
(* the participant p the scheduler named, run with a successful inference  *)
(* call, is a question-turn by p: one QA record with questioner p and an   *)
(* empty answer is appended, current_questioner = p, current_target is the *)
(* record's target and waiting_for_answer becomes true.                    *)
(***************************************************************************)
C28_ScheduledTurnIsQuestion ==
  [][(/\ inference = "ok"
      /\ state.current_stage = "questioning"
      /\ ~state.waiting_for_answer
      /\ node \in determine_next_node(state)
      /\ SpeaksAny)
       => /\ Appended = Msg(node, "questioning", "question")
          /\ Len(state'.questions_asked) = Len(state.questions_asked) + 1
          /\ SubSeq(state'.questions_asked, 1, Len(state.questions_asked))
               = state.questions_asked
          /\ LET record == state'.questions_asked[Len(state'.questions_asked)]
             IN /\ record.questioner = node
                /\ record.answer = ""
                /\ state'.current_target = record.target
          /\ state'.current_questioner = node
          /\ state'.waiting_for_answer]_vars

\* The most recent QA record of a state.
LatestQuestion(s) == s.questions_asked[Len(s.questions_asked)]

C30_TurnLeavesStateUnmodified ==
  [][/\ \A agent_key \in Range(state.active_agents) :
          (node = agent_key /\ agent_key \in determine_next_node(state)) =>
            \A r \in _generate_agent_response(state, agent_key) : r.st = state
     /\ SpeaksAny =>
          \E r \in _generate_agent_response(state, node) :
            state' = Apply(state, r.update)]_vars

\* The states in which determine_next_node draws nothing at random.
NoDraw(s) ==
  \/ s.current_stage \in {"opening", "free_debate", "closing"}
  \/ /\ s.current_stage = "questioning"
     /\ (s.waiting_for_answer \/ Len(s.questions_asked) >= Len(s.active_agents))

(***************************************************************************)
(* C31.  In opening, free_debate and closing, and in questioning with an   *)
(* answer pending or with len(questions_asked) >= N, determine_next_node   *)
(* has exactly one possible result for a given state; and computing the    *)
(* next node changes nothing: a step of a participant's node that runs no  *)
(* turn and handles no transition (a redirect, or the step to END) leaves  *)
(* the state as it was.                                                    *)
(***************************************************************************)
C31_SchedulerDeterministic ==
  [][/\ NoDraw(state) => Cardinality(determine_next_node(state)) = 1
     /\ NoDraw(state') => Cardinality(determine_next_node(state')) = 1
     /\ (node \in AVAILABLE_ROLES /\ state'.messages = state.messages)
          => state' = state]_vars

C31_Witness ==
  /\ state.current_stage = "questioning"
  /\ state.waiting_for_answer
  /\ Len(state.questions_asked) = N
  /\ determine_next_node(state) = {state.current_target}
  /\ node = state.current_target
  /\ Fails(state) >= 1

(***************************************************************************)
(* C32.  The transcript is append-only and in execution order: every step  *)
(* leaves messages unchanged or appends one entry at its end, the entries  *)
(* already there keep their place and content, and the entry a             *)
(* participant's turn appends is attributed to the participant whose node  *)
(* ran the turn and to the stage the turn was made in.                     *)
(***************************************************************************)
C32_TranscriptAppendOnly ==
  [][/\ Len(state'.messages) \in {Len(state.messages), Len(state.messages) + 1}
     /\ SubSeq(state'.messages, 1, Len(state.messages)) = state.messages
     /\ SpeaksAny =>
          /\ Appended.speaker = node
          /\ Appended.stage = state.current_stage
          /\ node \in determine_next_node(state)]_vars

C32_Witness ==
  /\ Terminated
  /\ Slips(state) >= 1
  /\ state.max_rounds = 1
  /\ Len(state.messages) = 3 + 5 * N + MaxExtra

\* The fields of a debate's state that C33 names.
InstanceFields ==
  {"current_stage", "stage_progress", "messages", "questions_asked",
   "agent_paper_cache", "first_round_rag_completed"}

C34_FailedTurnFrame ==
  [][Speaks({"apology"}) =>
       /\ Appended = Msg(node, state.current_stage, "apology")
       /\ state'.messages = Append(state.messages, Appended)
       /\ state'.stage_progress = state.stage_progress + 1
       /\ state'.total_messages = state.total_messages + 1
       /\ \A k \in DOMAIN state \ {"messages", "stage_progress", "total_messages"} :
            state'[k] = state[k]]_vars

(***************************************************************************)
(* C35.  In every reachable state of the questioning stage,                *)
(* waiting_for_answer is true if and only if questions_asked is not empty  *)
(* and its last record has an empty answer, and every record other than    *)
(* the last has a non-empty answer.                                        *)
(***************************************************************************)
C35_WaitingIffLastUnanswered ==
  state.current_stage = "questioning" =>
    /\ state.waiting_for_answer <=>
         (state.questions_asked # <<>> /\ LatestQuestion(state).answer = "")
    /\ \A i \in 1..(Len(state.questions_asked) - 1) :
         state.questions_asked[i].answer # ""

C35_Witness ==
  /\ state.current_stage = "questioning"
  /\ state.waiting_for_answer
  /\ Len(state.questions_asked) = N
  /\ LatestQuestion(state).answer = ""
  /\ Slips(state) >= 1
  /\ Fails(state) >= 1

(***************************************************************************)
(* C36.  In every reachable state, if waiting_for_answer is true then      *)
(* current_questioner and current_target are the questioner and the target *)
(* of the last QA record, and if it is false both are empty.               *)
(***************************************************************************)
C36_CursorMatchesLastRecord ==
  IF state.waiting_for_answer THEN
    /\ state.questions_asked # <<>>
    /\ state.current_questioner = LatestQuestion(state).questioner
    /\ state.current_target = LatestQuestion(state).target
  ELSE
    /\ state.current_questioner = ""
    /\ state.current_target = ""

C36_Witness ==
  /\ state.current_stage = "questioning"
  /\ ~state.waiting_for_answer
  /\ Len(state.questions_asked) = 1
  /\ LatestQuestion(state).answer = "answer"
  /\ state.current_target = ""
  /\ Fails(state) >= 1
  /\ state.messages[Len(state.messages)].kind = "answer"

\* The participants who are the target of exactly n QA records.
TargetedTimes(s, n) ==
  {a \in Range(s.active_agents) :
     target_count(s.active_agents, s.questions_asked, a) = n}

(***************************************************************************)
(* C37.  In every reachable state of the questioning stage no participant  *)
(* is the target of more than two QA records and at most one participant   *)
(* is the target of two; once all N questions are asked, a participant who *)
(* is the target of none is the author of the last question.               *)
(***************************************************************************)
C37_TargetsNearlyBalanced ==
  /\ state.current_stage = "questioning" =>
       /\ \A a \in Range(state.active_agents) :
            target_count(state.active_agents, state.questions_asked, a) <= 2
       /\ Cardinality(TargetedTimes(state, 2)) <= 1
  /\ (\/ QuestioningOver
      \/ state.current_stage = "questioning" /\ Len(state.questions_asked) = N)
       => \A a \in TargetedTimes(state, 0) :
            /\ Len(state.questions_asked) = N
            /\ LatestQuestion(state).questioner = a

C37_Witness ==
  /\ state.current_stage = "questioning"
  /\ Len(state.questions_asked) = N
  /\ Cardinality(TargetedTimes(state, 2)) = 1
  /\ TargetedTimes(state, 0) = {LatestQuestion(state).questioner}
  /\ N = MinAgents + ExtraAgents

\* total_messages counts the participants' entries, and the transcript holds
\* one announcement more for every stage entered.
TurnsCounted(s) ==
  /\ s.total_messages =
       Cardinality({i \in 1..Len(s.messages) : s.messages[i].speaker # "system"})
  /\ Len(s.messages) = s.total_messages + (StageIndex(s.current_stage) - 1)

(***************************************************************************)
(* C38.  In every reachable state total_messages equals the number of      *)
(* participant entries in the transcript, and the length of the transcript *)
(* equals total_messages plus the number of stage transitions handled so   *)
(* far; a step of a participant's node that runs no turn (a redirect to    *)
(* the scheduled speaker) changes neither.                                 *)
(***************************************************************************)
C38_TurnCounterMatchesTranscript ==
  [][/\ TurnsCounted(state)
     /\ TurnsCounted(state')
     /\ (/\ node \in AVAILABLE_ROLES
         /\ node' \in AVAILABLE_ROLES \ {node}
         /\ state'.stage_progress = state.stage_progress)
          => /\ state'.total_messages = state.total_messages
             /\ state'.messages = state.messages]_vars

C38_Witness ==
  /\ state.current_stage = "closing"
  /\ state.max_rounds = MaxRounds
  /\ state.total_messages = N * (3 + MaxRounds) + 1
  /\ Len(state.messages) = state.total_messages + 3
  /\ Extra(state) = 1
  /\ state.stage_progress = 0

(***************************************************************************)
(* C39.  In the history given to a free_debate speaker (the last 6         *)
(* transcript entries) each entry is labelled with the participant who     *)
(* produced it.                                                            *)
(***************************************************************************)
C39_HistoryLabelsAreSpeakers ==
  (/\ state.current_stage = "free_debate"
   /\ node \in Range(state.active_agents)
   /\ node \in determine_next_node(state))
    => LET history == format_agent_history(state.messages, state.active_agents)
       IN \A i \in 1..Len(history) : history[i].label = history[i].entry.speaker

\* The overall progress shown for the current state.
progress_percent ==
  display_debate_progress(state.current_stage, state.stage_progress,
                          state.active_agents, state.max_rounds)

(***************************************************************************)
(* C40.  The overall progress shown is below 100% in every state of a      *)
(* debate that has not terminated and is 100% at termination, where the    *)
(* total it divides by is the number of participant turns it counts for a  *)
(* complete debate: N opening, 2N questioning, N * max_rounds free_debate  *)
(* and N closing.                                                          *)
(***************************************************************************)
C40_ProgressFullOnlyAtEnd ==
  /\ node \in Range(state.active_agents) \cup StageNodes => progress_percent < 100
  /\ Terminated =>
       /\ progress_percent = 100
       /\ total_expected(state.active_agents, state.max_rounds)
            = N + 2 * N + N * state.max_rounds + N

====
